---- MODULE Spec2Model ----
(***************************************************************************)
(* auto-sub: classification -> command synthesis -> progress monitoring.   *)
(*                                                                         *)
(* Strings of the program are sequences of one-character strings, so that  *)
(* suffix tests, case folding and number formatting are computed the way   *)
(* the Go code computes them.                                              *)
(***************************************************************************)
EXTENDS Integers, Sequences, FiniteSets, TLC

(***************************************************************************)
(* Bounds of the model.                                                    *)
(***************************************************************************)
\* number of candidate directory entries the classifier is exercised on
MaxEntries == 8
\* number of diagnostic chunks the transcoder emits during one render
MaxChunks == 1
\* largest frame count the frame probe reports and the transcoder encodes
MaxTotalFrames == 2
\* number of base-1024 digits of the largest size that is formatted
MaxLimbs == 6
\* length of the longest file name that is trimmed
MaxNameLen == 50
\* the largest percentage a bar is asked for, but for the extremes
MaxProgress == 105

(***************************************************************************)
(* Exit codes (commons).                                                   *)
(***************************************************************************)
RootDirectoryIncorrect == 11
UnexpectedError == 13
SourceDirectoryError == 15
StatusOK == 0

(***************************************************************************)
(* String helpers: the parts of package strings / filepath / strconv that  *)
(* the program calls.                                                      *)
(***************************************************************************)
Uppers == <<"A","B","C","D","E","F","G","H","I","J","K","L","M",
            "N","O","P","Q","R","S","T","U","V","W","X","Y","Z">>
Lowers == <<"a","b","c","d","e","f","g","h","i","j","k","l","m",
            "n","o","p","q","r","s","t","u","v","w","x","y","z">>

ToLowerChar(c) ==
    IF \E i \in 1..Len(Uppers) : Uppers[i] = c
    THEN Lowers[CHOOSE i \in 1..Len(Uppers) : Uppers[i] = c]
    ELSE c

\* strings.ToLower
ToLower(s) == [i \in 1..Len(s) |-> ToLowerChar(s[i])]

\* strings.HasSuffix
HasSuffix(s, suffix) ==
    /\ Len(suffix) <= Len(s)
    /\ SubSeq(s, Len(s) - Len(suffix) + 1, Len(s)) = suffix

\* strings.TrimSuffix
TrimSuffix(s, suffix) ==
    IF HasSuffix(s, suffix) THEN SubSeq(s, 1, Len(s) - Len(suffix)) ELSE s

\* strings.TrimLeft(s, "."): drops every leading period
RECURSIVE TrimLeftDots(_)
TrimLeftDots(s) ==
    IF s # <<>> /\ Head(s) = "." THEN TrimLeftDots(Tail(s)) ELSE s

\* strings.EqualFold (ASCII)
EqualFold(a, b) == ToLower(a) = ToLower(b)

\* substring test, the model of RegexRule.MatchString for a literal pattern
Contains(s, sub) ==
    \E i \in 0..(Len(s) - Len(sub)) : SubSeq(s, i + 1, i + Len(sub)) = sub

\* filepath.Ext: the suffix beginning at the final dot, empty if there is none
Ext(name) ==
    IF \E i \in 1..Len(name) : name[i] = "."
    THEN LET last == CHOOSE i \in 1..Len(name) :
                        /\ name[i] = "."
                        /\ \A j \in (i + 1)..Len(name) : name[j] # "."
         IN SubSeq(name, last, Len(name))
    ELSE <<>>

\* filepath.Join of two clean elements: empty elements are ignored
Join(a, b) ==
    IF a = <<>> THEN b ELSE IF b = <<>> THEN a ELSE a \o <<"/">> \o b

Digits == <<"0","1","2","3","4","5","6","7","8","9">>

\* strconv.Itoa for non-negative integers
RECURSIVE Itoa(_)
Itoa(n) ==
    IF n < 10 THEN <<Digits[n + 1]>>
    ELSE Itoa(n \div 10) \o <<Digits[(n % 10) + 1]>>

(***************************************************************************)
(* Recognized extensions (without the period, lower case).                 *)
(***************************************************************************)
videoExt == << <<"m","k","v">>, <<"m","p","4">>, <<"w","e","b","m">>,
               <<"m","2","t","s">> >>
subsExt == << <<"s","r","t">>, <<"a","s","s">>, <<"s","u","p">>,
              <<"p","g","s">>, <<"v","t","t">> >>
attachmentExt == << <<"t","t","f">>, <<"o","t","f">> >>
chaptersExt == << <<"x","m","l">> >>

\* checkExt without the conversion of the file name to lower case
checkExtExact(fileName, extensions) ==
    \E k \in 1..Len(extensions) :
        HasSuffix(fileName, <<".">> \o TrimLeftDots(extensions[k]))

\* checkExt: does the lower-cased file name end with "." + one of the extensions
checkExt(fileName, extensions) ==
    \E k \in 1..Len(extensions) :
        HasSuffix(ToLower(fileName), <<".">> \o TrimLeftDots(extensions[k]))

\* UserInput.IgnoreFile: regex match first, then the exclusion list
IgnoreFile(userInput, fileName) ==
    \/ /\ userInput.RegexRule # <<>>
       /\ Contains(fileName, userInput.RegexRule)
    \/ \E k \in 1..Len(userInput.Exclusions) :
           EqualFold(fileName, userInput.Exclusions[k])

\* the category of the switch in groupFiles: the first case that matches
Category(fileName) ==
    CASE checkExt(fileName, videoExt) -> "media"
      [] checkExt(fileName, subsExt) -> "subtitle"
      [] checkExt(fileName, attachmentExt) -> "attachment"
      [] checkExt(fileName, chaptersExt) -> "chapter"
      [] OTHER -> "none"

\* the entries of files, in order, that are grouped under category cat
RECURSIVE Grouped(_, _, _)
Grouped(files, userInput, cat) ==
    IF files = <<>> THEN <<>>
    ELSE LET file == Head(files)
             rest == Grouped(Tail(files), userInput, cat)
         IN IF file.isDir THEN rest
            ELSE IF IgnoreFile(userInput, file.name) THEN rest
            ELSE IF Category(file.name) = cat THEN <<file>> \o rest
            ELSE rest

\* groupFiles: the four lists; all empty when the directory cannot be read
groupFiles(listing, readable, userInput) ==
    IF ~readable
    THEN [mediaFiles |-> <<>>, subtitles |-> <<>>,
          attachments |-> <<>>, chapters |-> <<>>]
    ELSE [mediaFiles |-> Grouped(listing, userInput, "media"),
          subtitles |-> Grouped(listing, userInput, "subtitle"),
          attachments |-> Grouped(listing, userInput, "attachment"),
          chapters |-> Grouped(listing, userInput, "chapter")]

(***************************************************************************)
(* Command synthesis.                                                      *)
(***************************************************************************)
ArgInput == <<"-","i">>
ArgCodec == <<"-","c">>
ArgCopy == <<"c","o","p","y">>
ArgMap == <<"-","m","a","p">>
ArgAttach == <<"-","a","t","t","a","c","h">>
ArgForce == <<"-","f">>
MetaSubPrefix == <<"-","m","e","t","a","d","a","t","a",":","s",":","s",":">>
MetaAttachPrefix == <<"-","m","e","t","a","d","a","t","a",":","s",":","t",":">>
TitlePrefix == <<"t","i","t","l","e","=">>
LanguagePrefix == <<"l","a","n","g","u","a","g","e","=">>
MimeXml == <<"m","i","m","e","t","y","p","e","=","t","e","x","t","/","x","m","l">>
MimeFont == <<"m","i","m","e","t","y","p","e","=","a","p","p","l","i","c","a","t","i","o","n","/","x","-","t","r","u","e","t","y","p","e","-","f","o","n","t">>
MkvSuffix == <<".","m","k","v">>

\* UserInput.OutputName: the file name with its extension replaced by ".mkv"
OutputName(fileName) == TrimSuffix(fileName, Ext(fileName)) \o MkvSuffix

\* "-i <sourceDir>/<sub>" for every subtitle, in list order
RECURSIVE SubInputs(_, _)
SubInputs(sourceDir, subsFound) ==
    IF subsFound = <<>> THEN <<>>
    ELSE <<ArgInput, Join(sourceDir, Head(subsFound).name)>>
         \o SubInputs(sourceDir, Tail(subsFound))

\* the loop "for i := 1; i < len(subsFound)+1; i++": "-map i" for i = from..n
RECURSIVE StreamMaps(_, _)
StreamMaps(from, n) ==
    IF from >= n + 1 THEN <<>>
    ELSE <<ArgMap, Itoa(from)>> \o StreamMaps(from + 1, n)

\* the mapping directives of generateCmd: the loop starts at index 1
MapDirectives(subsFound) == StreamMaps(1, Len(subsFound))
\* metadata indexed by the input the subtitle is (the media file is input 0)
SubMetadataOfInputIndex(userInput, sub, i) ==
    LET title == IF userInput.SubTitleString = <<>>
                 THEN TrimSuffix(sub.name, Ext(sub.name))
                 ELSE userInput.SubTitleString
    IN <<MetaSubPrefix \o Itoa(i + 1), TitlePrefix \o title>>
       \o (IF userInput.SubLang # <<>>
           THEN <<MetaSubPrefix \o Itoa(i + 1), LanguagePrefix \o userInput.SubLang>>
           ELSE <<>>)

\* title (and language) metadata of the subtitle at position i (0-based)
SubMetadataOf(userInput, sub, i) ==
    LET title == IF userInput.SubTitleString = <<>>
                 THEN TrimSuffix(sub.name, Ext(sub.name))
                 ELSE userInput.SubTitleString
    IN <<MetaSubPrefix \o Itoa(i), TitlePrefix \o title>>
       \o (IF userInput.SubLang # <<>>
           THEN <<MetaSubPrefix \o Itoa(i), LanguagePrefix \o userInput.SubLang>>
           ELSE <<>>)

RECURSIVE SubMetadata(_, _, _)
SubMetadata(userInput, subsFound, i) ==
    IF subsFound = <<>> THEN <<>>
    ELSE SubMetadataOf(userInput, Head(subsFound), i)
         \o SubMetadata(userInput, Tail(subsFound), i + 1)

\* "-attach <path> -metadata:s:t:<streams> mimetype=..." for every file of
\* the list, the counter starting at streams
RECURSIVE AttachGroups(_, _, _, _)
AttachGroups(sourceDir, found, streams, mime) ==
    IF found = <<>> THEN <<>>
    ELSE <<ArgAttach, Join(sourceDir, Head(found).name),
           MetaAttachPrefix \o Itoa(streams), mime>>
         \o AttachGroups(sourceDir, Tail(found), streams + 1, mime)
\* a counter that starts again from zero for the attachments
StreamsReset(chaptersFound) == 0

\* the value of "streams" after the loop over the chapters
StreamsAfterChapters(chaptersFound) == Len(chaptersFound)

\* generateCmd: the argument vector handed to exec.Command
generateCmd(sourceDir, userInput, outDir, mediaFile, subsFound, attachmentFound, chaptersFound) ==
    <<ArgInput, Join(sourceDir, mediaFile.name)>>
    \o SubInputs(sourceDir, subsFound)
    \o <<ArgCodec, ArgCopy>>
    \o MapDirectives(subsFound)
    \o SubMetadata(userInput, subsFound, 0)
    \o AttachGroups(sourceDir, chaptersFound, 0, MimeXml)
    \o AttachGroups(sourceDir, attachmentFound, StreamsAfterChapters(chaptersFound), MimeFont)
    \o <<Join(outDir, OutputName(mediaFile.name))>>
    \o (IF userInput.Force THEN <<ArgForce>> ELSE <<>>)

(***************************************************************************)
(* Inputs: directory listings and user options.                            *)
(***************************************************************************)
\* candidate directory entries, in the order ioutil.ReadDir lists them
\* (sorted by file name)
AllEntries ==
    << [name |-> <<".","x","m","l">>, isDir |-> FALSE],
       [name |-> <<"A",".","M","P","4">>, isDir |-> FALSE],
       [name |-> <<"a",".","m","k","v">>, isDir |-> FALSE],
       [name |-> <<"b",".","s","r","t">>, isDir |-> FALSE],
       [name |-> <<"c",".","A","s","s">>, isDir |-> FALSE],
       [name |-> <<"d",".","t","t","f">>, isDir |-> FALSE],
       [name |-> <<"e",".","s","r","t">>, isDir |-> TRUE],
       [name |-> <<"f",".","m","k","v",".","t","x","t">>, isDir |-> FALSE],
       [name |-> <<"g",".","x","m","l">>, isDir |-> FALSE],
       [name |-> <<"m","k","v">>, isDir |-> FALSE] >>

Min(a, b) == IF a < b THEN a ELSE b

\* the entries the classifier is exercised on
Pool == SubSeq(AllEntries, 1, Min(MaxEntries, Len(AllEntries)))

\* the listing that holds exactly the pool entries with an index in picked
RECURSIVE ListingFrom(_, _)
ListingFrom(picked, i) ==
    IF i > Len(Pool) THEN <<>>
    ELSE (IF i \in picked THEN <<Pool[i]>> ELSE <<>>) \o ListingFrom(picked, i + 1)

Listings == {ListingFrom(picked, 1) : picked \in SUBSET (1..Len(Pool))}

\* the listings one render is run on: valid with .mkv media, valid with
\* upper-case .MP4 media, no media, two media, no extra file
RenderListings ==
    {ListingFrom(picked, 1) : picked \in {{3, 4}, {2, 4, 6}, {4}, {2, 3, 4}, {3}}}

SrcPath == <<"/","s">>
ResPath == <<"/","r">>

ExclusionChoices == {<<>>, << <<"B",".","S","R","T">> >>}
\* the exclusion pattern: none, or a pattern of literal characters, which
\* matches every name that contains them
RegexChoices == {<<>>, <<"M","P">>}
TitleChoices == {<<>>, <<"T">>}
LangChoices == {<<>>, <<"e","n","g">>}

DefaultInput ==
    [Exclusions |-> <<>>, RegexRule |-> <<>>, SubTitleString |-> <<>>,
     SubLang |-> <<>>, Force |-> FALSE, IsDirect |-> FALSE]

\* the option sets: every choice of the ignore rules with the default
\* command options, and every choice of the command options with no ignore
\* rule (classification reads the former only, command synthesis the latter)
UserInputs ==
    {[DefaultInput EXCEPT !.Exclusions = e, !.RegexRule = r] :
        e \in ExclusionChoices, r \in RegexChoices}
    \cup {[DefaultInput EXCEPT !.SubTitleString = t, !.SubLang = l, !.Force = f] :
        t \in TitleChoices, l \in LangChoices, f \in BOOLEAN}

NoFiles ==
    [mediaFiles |-> <<>>, subtitles |-> <<>>, attachments |-> <<>>, chapters |-> <<>>]

(***************************************************************************)
(* State.                                                                  *)
(***************************************************************************)
VARIABLES
    listing,     \* entries of the source directory
    readable,    \* whether ioutil.ReadDir of the source directory succeeds
    input,       \* commons.UserInput
    grouped,     \* mediaFiles, subtitles, attachments, chapters of sourceDir
    cmdRaw,      \* argument vector of the transcoder command
    pc,          \* position of sourceDir (the owning goroutine)
    exitCode     \* value sourceDir returns

(***************************************************************************)
(* sourceDir, first part: classification, validation, command synthesis.   *)
(***************************************************************************)
\* a switch without the case of several media files
RejectsNoMediaOrNoExtras(g) ==
    \/ Len(g.mediaFiles) = 0
    \/ (Len(g.subtitles) = 0 /\ Len(g.attachments) = 0 /\ Len(g.chapters) = 0)

\* the switch of sourceDir: the cases that force-stop
Rejects(g) ==
    \/ Len(g.mediaFiles) = 0
    \/ Len(g.mediaFiles) > 1
    \/ (Len(g.subtitles) = 0 /\ Len(g.attachments) = 0 /\ Len(g.chapters) = 0)

(***************************************************************************)
(* Diagnostic text.  A text is a sequence of chunks; a chunk is one line   *)
(* of transcoder output "frame=<d> fps=<d> ... size=<d>kB" of which any    *)
(* token may be missing (<<>>), ended by "\n" (nl) or by "\r".             *)
(***************************************************************************)
regexPos == 2
convFail == -1
strTrimLen == 48
pbLen == 40

MaxInt64Digits ==
    <<"9","2","2","3","3","7","2","0","3","6","8","5","4","7","7","5","8","0","7">>

DigitVal(c) == (CHOOSE i \in 1..Len(Digits) : Digits[i] = c) - 1

DigitSet == {"0", "1", "2", "3", "4", "5", "6", "7", "8", "9"}

IsDigits(in) == in # <<>> /\ \A i \in 1..Len(in) : in[i] \in DigitSet

RECURSIVE StripZeros(_)
StripZeros(in) ==
    IF Len(in) > 1 /\ Head(in) = "0" THEN StripZeros(Tail(in)) ELSE in

\* a <= b for digit strings of the same length
RECURSIVE DigitsLeq(_, _)
DigitsLeq(a, b) ==
    IF a = <<>> THEN TRUE
    ELSE IF DigitVal(Head(a)) < DigitVal(Head(b)) THEN TRUE
    ELSE IF DigitVal(Head(a)) > DigitVal(Head(b)) THEN FALSE
    ELSE DigitsLeq(Tail(a), Tail(b))

\* whether strconv.ParseInt(in, 10, 64) accepts the digit string
FitsInt64(in) ==
    LET d == StripZeros(in)
    IN \/ Len(d) < Len(MaxInt64Digits)
       \/ (Len(d) = Len(MaxInt64Digits) /\ DigitsLeq(d, MaxInt64Digits))

RECURSIVE DigitsValue(_)
DigitsValue(in) ==
    IF in = <<>> THEN 0
    ELSE 10 * DigitsValue(SubSeq(in, 1, Len(in) - 1)) + DigitVal(in[Len(in)])

\* Updates.convertor: the parsed integer, convFail when parsing fails
convertor(in) ==
    IF IsDigits(in) /\ FitsInt64(in) THEN DigitsValue(in) ELSE convFail

\* the first token of a chunk's line
FirstToken(chunk) ==
    IF chunk.frame # <<>> THEN "frame"
    ELSE IF chunk.fps # <<>> THEN "fps"
    ELSE IF chunk.size # <<>> THEN "size"
    ELSE "none"

\* index of the chunk that ends the line chunk i is part of
RECURSIVE LineEnd(_, _)
LineEnd(text, i) ==
    IF i >= Len(text) \/ text[i].nl THEN i ELSE LineEnd(text, i + 1)

\* regexp.FindSubmatch of `.*(\s+|^)<field>=\s*(\d+)`, leftmost match with a
\* greedy ".*" that never crosses "\n": in the first line that allows a
\* match, the token that starts the next line ("\s+" spans the "\n") and
\* otherwise the last token of the line.  The result is <<>> (no match) or
\* <<whole, group 1, group 2>>; only group 2, the digits, is kept.
RECURSIVE MatchFrom(_, _, _)
MatchFrom(text, field, i) ==
    IF i > Len(text) THEN <<>>
    ELSE LET e == LineEnd(text, i)
             hits == {k \in i..e : text[k][field] # <<>>}
         IN IF e < Len(text) /\ text[e].nl /\ FirstToken(text[e + 1]) = field
            THEN << <<>>, <<>>, text[e + 1][field] >>
            ELSE IF hits # {}
            THEN << <<>>, <<>>, text[CHOOSE k \in hits : \A h \in hits : h <= k][field] >>
            ELSE MatchFrom(text, field, e + 1)

FindSubmatch(text, field) == MatchFrom(text, field, 1)

\* Updates.extractData: named results start at 0 and are set on a match only
extractData(text) ==
    LET resFrames == FindSubmatch(text, "frame")
        resFps == FindSubmatch(text, "fps")
        resSize == FindSubmatch(text, "size")
    IN [frames |-> IF Len(resFrames) >= regexPos
                   THEN convertor(resFrames[regexPos + 1]) ELSE 0,
        fps |-> IF Len(resFps) >= regexPos
                THEN convertor(resFps[regexPos + 1]) ELSE 0,
        size |-> IF Len(resSize) >= regexPos
                 THEN convertor(resSize[regexPos + 1]) * 1000 ELSE 0]
\* a probe whose exit status is not looked at
getTotalFramesOfAnyExit(out) ==
    LET res == FindSubmatch(out.text, "frame")
    IN IF Len(res) >= regexPos /\ convertor(res[regexPos + 1]) # convFail
       THEN [frames |-> convertor(res[regexPos + 1]), err |-> FALSE]
       ELSE [frames |-> 0, err |-> TRUE]

\* Updates.getTotalFrames on the outcome of the probe subprocess:
\* out.failed (cmd.Run returned an error) and out.text (its stderr)
getTotalFrames(out) ==
    IF out.failed THEN [frames |-> 0, err |-> TRUE]
    ELSE LET res == FindSubmatch(out.text, "frame")
         IN IF Len(res) >= regexPos /\ convertor(res[regexPos + 1]) # convFail
            THEN [frames |-> convertor(res[regexPos + 1]), err |-> FALSE]
            ELSE [frames |-> 0, err |-> TRUE]

\* Updates.Initialize: totalFrames after the probe
InitializeFrames(out) ==
    IF getTotalFrames(out).err THEN 0 ELSE getTotalFrames(out).frames

(***************************************************************************)
(* Progress rendering.                                                     *)
(***************************************************************************)
Abs(n) == IF n < 0 THEN -n ELSE n

\* Go integer division: truncated toward zero
TruncDiv(a, b) ==
    IF (a >= 0) = (b > 0) THEN Abs(a) \div Abs(b) ELSE -(Abs(a) \div Abs(b))

\* a / b rounded to the nearest integer (halves away from zero)
RoundDiv(a, b) ==
    IF (a >= 0) = (b > 0) THEN (2 * Abs(a) + Abs(b)) \div (2 * Abs(b))
    ELSE -((2 * Abs(a) + Abs(b)) \div (2 * Abs(b)))

\* curProgress := float32(curFrames*100) / float32(totalFrames), as "%.2f"
\* prints it: hundredths of a percent, or the IEEE special value of a
\* division by zero.  The quotient is exact to the printed digits for the
\* frame counts of the model (100 * frames < 2^24).
Percentage(curFrames, total) ==
    IF total # 0 THEN [kind |-> "number", centi |-> RoundDiv(curFrames * 10000, total)]
    ELSE IF curFrames = 0 THEN [kind |-> "NaN", centi |-> 0]
    ELSE IF curFrames > 0 THEN [kind |-> "+Inf", centi |-> 0]
    ELSE [kind |-> "-Inf", centi |-> 0]

\* int(curProgress): truncation for a finite quotient.  The conversion of
\* NaN and of the infinities is implementation-dependent in Go: the amd64
\* build yields the smallest int64 for all three, the arm64 build yields 0
\* for NaN and saturates the infinities.
IntConversions(curFrames, total) ==
    IF total # 0 THEN {[tag |-> "int", val |-> TruncDiv(curFrames * 100, total)]}
    ELSE IF curFrames = 0
    THEN {[tag |-> "min64", val |-> 0], [tag |-> "int", val |-> 0]}
    ELSE IF curFrames > 0
    THEN {[tag |-> "min64", val |-> 0], [tag |-> "max64", val |-> 0]}
    ELSE {[tag |-> "min64", val |-> 0]}

\* fills := (pbLen * progress) / 100 in 64-bit arithmetic:
\* 40 * (-2^63) wraps to 0, 40 * (2^63 - 1) wraps to -40
Fills(progress) ==
    IF progress.tag = "int" THEN TruncDiv(pbLen * progress.val, 100)
    ELSE IF progress.tag = "min64" THEN TruncDiv(0, 100)
    ELSE TruncDiv(-pbLen, 100)

\* a bar whose animation counter is reset only after it went past the width
progressBarLateReset(progress, animation) ==
    LET fills == IF Fills(progress) = 0 THEN Fills(progress) + 1 ELSE Fills(progress)
        stepped == IF pbLen - (animation + 5) < 0 THEN 0 ELSE animation + 5
    IN IF fills < 0 \/ pbLen - fills < 0
       THEN [kind |-> "unknown", marks |-> stepped, head |-> 0,
             blanks |-> pbLen - stepped, animation |-> stepped]
       ELSE [kind |-> "normal", marks |-> fills - 1, head |-> 1,
             blanks |-> pbLen - fills, animation |-> animation]

\* Updates.progressBar: the bar drawn and the animation counter after it
progressBar(progress, animation) ==
    LET fills == IF Fills(progress) = 0 THEN Fills(progress) + 1 ELSE Fills(progress)
        stepped == IF pbLen - (animation + 5) <= 0 THEN 0 ELSE animation + 5
    IN IF fills < 0 \/ pbLen - fills < 0
       THEN [kind |-> "unknown", marks |-> stepped, head |-> 0,
             blanks |-> pbLen - stepped, animation |-> stepped]
       ELSE [kind |-> "normal", marks |-> fills - 1, head |-> 1,
             blanks |-> pbLen - fills, animation |-> animation]

\* Updates.readableFileSize panics on a negative size
ReadableSizePanics(fileSize) == fileSize < 0
(***************************************************************************)
(* Updates.readableFileSize.  A size is a float64 that holds a whole       *)
(* number of bytes: its sign and its digits in base 1024, most significant *)
(* first and without leading zeros.  Dividing by 1024 is exact in float64, *)
(* it moves the last digit of the whole part behind the point.             *)
(***************************************************************************)
units == <<"B", "KiB", "MiB", "GiB", "TiB", "PiB">>

\* frac * m for a fraction given by its base-1024 digits: the whole part
\* (carry) and the fraction that remain
RECURSIVE MulLimbs(_, _)
MulLimbs(frac, m) ==
    IF frac = <<>> THEN [carry |-> 0, limbs |-> <<>>]
    ELSE LET rest == MulLimbs(Tail(frac), m)
             v == Head(frac) * m + rest.carry
         IN [carry |-> v \div 1024, limbs |-> <<v % 1024>> \o rest.limbs]

\* how a fraction compares with one half: "below", "half" or "above"
AgainstHalf(frac) ==
    IF frac = <<>> \/ Head(frac) < 512 THEN "below"
    ELSE IF Head(frac) = 512 /\ \A i \in 2..Len(frac) : frac[i] = 0 THEN "half"
    ELSE "above"

\* fmt.Sprintf("%.2f", whole + frac): the whole part and the hundredths,
\* rounded to the nearest hundredth, a tie to the even one
TwoDecimals(whole, frac) ==
    LET first == MulLimbs(frac, 10)
        second == MulLimbs(first.limbs, 10)
        cut == 10 * first.carry + second.carry
        up == \/ AgainstHalf(second.limbs) = "above"
              \/ (AgainstHalf(second.limbs) = "half" /\ cut % 2 = 1)
        hundredths == whole * 100 + cut + (IF up THEN 1 ELSE 0)
    IN [whole |-> hundredths \div 100, cents |-> hundredths % 100]

\* a loop condition "fileSize > 1024"
Above1024(whole, frac) ==
    \/ Len(whole) > 2
    \/ (Len(whole) = 2 /\ (whole[1] > 1 \/ whole[2] > 0 \/ \E i \in 1..Len(frac) : frac[i] > 0))

\* the loop condition "fileSize >= 1024": the whole part has a second digit
AtLeast1024(whole, frac) == Len(whole) > 1

\* a guard that lets every size pass
NoSizeIsNegative(fileSize) == FALSE

\* the guard "fileSize < 0"
IsNegativeSize(fileSize) == fileSize.neg

\* the loop "for fileSize >= 1024 { counter++; fileSize /= 1024 }"
RECURSIVE DivideLoop(_, _, _)
DivideLoop(whole, frac, counter) ==
    IF AtLeast1024(whole, frac)
    THEN DivideLoop(SubSeq(whole, 1, Len(whole) - 1), <<whole[Len(whole)]>> \o frac,
                    counter + 1)
    ELSE [counter |-> counter, whole |-> whole[1], frac |-> frac]

\* Updates.readableFileSize: a panic on a negative size and on a counter
\* past the last unit (index out of range), else the number and the unit
readableFileSize(fileSize) ==
    IF IsNegativeSize(fileSize)
    THEN [kind |-> "panic", counter |-> 0, whole |-> 0, frac |-> <<>>,
          text |-> [whole |-> 0, cents |-> 0], unit |-> ""]
    ELSE LET r == DivideLoop(fileSize.limbs, <<>>, 0)
         IN IF r.counter + 1 > Len(units)
            THEN [kind |-> "panic", counter |-> r.counter, whole |-> r.whole,
                  frac |-> r.frac, text |-> [whole |-> 0, cents |-> 0], unit |-> ""]
            ELSE [kind |-> "value", counter |-> r.counter, whole |-> r.whole,
                  frac |-> r.frac, text |-> TwoDecimals(r.whole, r.frac),
                  unit |-> units[r.counter + 1]]
(***************************************************************************)
(* Updates.trimString.  Lengths and slices count bytes, as len() and the  *)
(* slice expressions of Go do.                                             *)
(***************************************************************************)
separator == <<".", ".", ".", ".">>

\* a half computed from the whole width, the separator not counted
HalfOfWidth == strTrimLen \div 2

\* half := (strTrimLen - len(separator)) / 2
half == (strTrimLen - Len(separator)) \div 2

\* Updates.trimString
trimString(in) ==
    IF Len(in) <= strTrimLen THEN in
    ELSE SubSeq(in, 1, half) \o separator \o SubSeq(in, Len(in) - half + 1, Len(in))

\* Updates.getFileSize: -10 when the path does not exist (or is a directory)
getFileSize(files, path) ==
    IF \E f \in files : f.path = path
    THEN (CHOOSE f \in files : f.path = path).size
    ELSE -10

\* Updates.getProgress: what one sample draws.  progress is int(curProgress).
getProgress(curFrames, fps, size, total, progress, animation) ==
    [kind |-> "progress",
     percent |-> Percentage(curFrames, total),
     bar |-> progressBar(progress, animation),
     frames |-> curFrames, fps |-> fps, size |-> size,
     panics |-> ReadableSizePanics(size)]

\* the text of the branch taken when all three conversions failed
BrokenMessage ==
    [kind |-> "message",
     percent |-> [kind |-> "none", centi |-> 0],
     bar |-> [kind |-> "none", marks |-> 0, head |-> 0, blanks |-> 0, animation |-> 0],
     frames |-> convFail, fps |-> convFail, size |-> convFail,
     panics |-> FALSE]

\* strings.Count(progress, "\n") of what a tick printed
LineCount(drawn) == IF drawn.kind = "message" THEN 1 ELSE 6

(***************************************************************************)
(* State of one render: the owner (sourceDir), the monitor goroutine       *)
(* (Updates.DisplayUpdates), the transcoder subprocess and the goroutine   *)
(* of os/exec that copies its stderr into the progress buffer.             *)
(***************************************************************************)
VARIABLES
    totalFrames,            \* Updates.totalFrames
    probed,                 \* whether the frame probe subprocess was run
    tempAnimationProgress,  \* package-level animation counter
    sig,                    \* the signal channel: "nil", "open", "closed"
    stops,                  \* values sent by the owner and received by the monitor
    acks,                   \* values sent by the monitor and received by the owner
    monPc,                  \* position of the monitor goroutine
    proc,                   \* the transcoder: "none", "running", "exited", "failedStart"
    runResult,              \* what cmd.Run returns: "none", "ok", "error"
    encoded,                \* frames the transcoder has encoded
    resFiles,               \* files of the result directory: [path, size]
    progBuf,                \* the progress buffer (strings.Builder)
    pumpPc,                 \* the stderr copier: "idle", or "writing" inside an append
    pumpOld,                \* the buffer contents the append in progress started from
    pumpChunk,              \* the chunk the append in progress writes
    sample,                 \* frames, fps, size of the monitor
    examined,               \* the text the last tick got from buffer.String()
    lineCount,              \* lines the next redraw moves up
    printed,                \* the last sample drawn on the screen
    call,                   \* a helper function called on its own: name, argument, result
    fs,                     \* the file system TraverseRoot works on
    resDir,                 \* TraverseRoot's parameter: path of the result directory
    rootPc,                 \* position of TraverseRoot
    files,                  \* what ioutil.ReadDir(input.RootPath) returned
    next,                   \* index in files of the next iteration of the loop
    dirsFound,              \* TraverseRoot's counter of directories
    made,                   \* paths passed to os.Mkdir
    handed,                 \* calls of sourceDir: source path and returned code
    traversed               \* what TraverseRoot returned: exitCode, err

inputVars == <<listing, readable, input>>
probeVars == <<totalFrames, probed>>
chanVars == <<sig, stops, acks>>
procVars == <<proc, runResult, encoded, resFiles>>
pumpVars == <<pumpPc, pumpOld, pumpChunk>>
drawVars == <<sample, examined, lineCount, printed, tempAnimationProgress>>
helperVars == <<call>>
renderOnly ==
    <<inputVars, grouped, cmdRaw, pc, exitCode, probeVars, chanVars, monPc,
      procVars, progBuf, pumpVars, drawVars>>
traverseVars == <<fs, resDir, rootPc, files, next, dirsFound, made, handed, traversed>>

vars == <<inputVars, grouped, cmdRaw, pc, exitCode, probeVars, chanVars, monPc,
          procVars, progBuf, pumpVars, drawVars, helperVars, traverseVars>>
(***************************************************************************)
(* Arguments the helper functions are called with.                         *)
(***************************************************************************)
\* digits in base 1024 the sizes are built from
LimbChoices == {0, 1, 704, 1023}

RECURSIVE BitLen(_)
BitLen(n) == IF n = 0 THEN 0 ELSE 1 + BitLen(n \div 2)

\* number of zero bits at the low end of the number the digits write
RECURSIVE TrailingZeroBits(_)
TrailingZeroBits(limbs) ==
    IF limbs = <<>> THEN 0
    ELSE LET last == limbs[Len(limbs)]
         IN IF last = 0 THEN 10 + TrailingZeroBits(SubSeq(limbs, 1, Len(limbs) - 1))
            ELSE IF last % 2 = 1 THEN 0
            ELSE 1 + TrailingZeroBits(SubSeq(limbs, 1, Len(limbs) - 1) \o <<last \div 2>>)

\* whether a float64 (53 significant bits) holds the number exactly
IsFloat64(limbs) ==
    \/ limbs = <<0>>
    \/ 10 * (Len(limbs) - 1) + BitLen(limbs[1]) - TrailingZeroBits(limbs) <= 53

\* the sizes: every whole float64 of at most MaxLimbs digits over the
\* digit choices, and its negative
Magnitudes ==
    {limbs \in UNION {[1..n -> LimbChoices] : n \in 1..MaxLimbs} :
        (Len(limbs) = 1 \/ limbs[1] # 0) /\ IsFloat64(limbs)}

Sizes ==
    {[neg |-> FALSE, limbs |-> m] : m \in Magnitudes}
    \cup {[neg |-> TRUE, limbs |-> m] : m \in (Magnitudes \ {<<0>>}) \cup {<<10>>}}

\* sizes an int64 holds that are not below 1024^6: 2^60 and 7 * 2^60
ExbibyteSizes == {[neg |-> FALSE, limbs |-> <<t, 0, 0, 0, 0, 0, 0>>] : t \in {1, 7}}

\* the file names that are trimmed: of every length up to MaxNameLen, the
\* digits 0..9 in turn starting from 0, 3 or 7
NameOf(n, start) == [i \in 1..n |-> Digits[((i + start) % 10) + 1]]

Names == {NameOf(n, start) : n \in 0..MaxNameLen, start \in {0, 3, 7}}

\* the values progressBar is called with: the percentages around the ends
\* of the bar, two far ones, and the extremes of int64
ProgressChoices ==
    {[tag |-> "int", val |-> v] : v \in (-5..MaxProgress) \cup {-250, 250}}
    \cup {[tag |-> "min64", val |-> 0], [tag |-> "max64", val |-> 0]}

HugeDigits ==
    <<"9","9","9","9","9","9","9","9","9","9","9","9","9","9","9","9","9","9","9","9">>

NoChunk == [frame |-> <<>>, fps |-> <<>>, size |-> <<>>, nl |-> FALSE]

\* "frame=<f> fps=1 ... size=1kB \r"
ProgressChunk(f) == [frame |-> Itoa(f), fps |-> <<"1">>, size |-> <<"1">>, nl |-> FALSE]

\* a log line without any counter, ended by "\n"
NoiseLine == [frame |-> <<>>, fps |-> <<>>, size |-> <<>>, nl |-> TRUE]

\* a progress line none of whose counters fits an int64
GarbledChunk == [frame |-> HugeDigits, fps |-> HugeDigits, size |-> HugeDigits, nl |-> FALSE]

\* the prefixes of a chunk a reader can observe while the chunk is appended
Torn(chunk) ==
    {NoChunk,
     [chunk EXCEPT !.fps = <<>>, !.size = <<>>, !.nl = FALSE],
     [chunk EXCEPT !.size = <<>>, !.nl = FALSE]}

\* outcomes of the frame probe subprocess
ProbeOutputs ==
    {[failed |-> TRUE, text |-> <<>>],
     [failed |-> FALSE, text |-> <<>>],
     [failed |-> FALSE, text |-> <<GarbledChunk>>]}
    \cup {[failed |-> FALSE, text |-> <<NoiseLine, ProgressChunk(n)>>] : n \in 0..MaxTotalFrames}
\* one more than the largest int64
OverInt64Digits ==
    <<"9","2","2","3","3","7","2","0","3","6","8","5","4","7","7","5","8","0","8">>

\* the probe outcomes getTotalFrames is called on by itself: those above, a
\* probe that fails after it wrote a progress line, one whose count is just
\* over the int64 range, and one that wrote two progress lines
ProbeCalls ==
    ProbeOutputs
    \cup {[failed |-> TRUE, text |-> <<NoiseLine, ProgressChunk(1)>>],
          [failed |-> FALSE, text |-> <<NoiseLine, [GarbledChunk EXCEPT !.frame = OverInt64Digits]>>],
          [failed |-> FALSE, text |-> <<NoiseLine, ProgressChunk(1), ProgressChunk(2)>>]}

NoSample == [frames |-> 0, fps |-> 0, size |-> 0]

NothingDrawn ==
    [final |-> FALSE, kind |-> "none",
     percent |-> [kind |-> "none", centi |-> 0],
     bar |-> [kind |-> "none", marks |-> 0, head |-> 0, blanks |-> 0, animation |-> 0],
     frames |-> 0, fps |-> 0, size |-> 0]

\* what a sample leaves on the screen
Drawn(g, isFinal) ==
    [final |-> isFinal, kind |-> g.kind, percent |-> g.percent, bar |-> g.bar,
     frames |-> g.frames, fps |-> g.fps, size |-> g.size]

\* no helper function was called
NoCall == [fn |-> "none", arg |-> <<>>, ret |-> <<>>]
(***************************************************************************)
(* The file system TraverseRoot works on: the entries of the root          *)
(* directory, one path outside of it, and the calls that fail.             *)
(***************************************************************************)
RootPath == <<"/", "w">>
OutsidePath == <<"/", "o">>

\* names of the root directory's entries, in the order ReadDir sorts them
EntryNames == << <<"a">>, <<"f">>, <<"r">>, <<"z">> >>
ResultName == <<"r">>

\* the root directories: "a" and "z" are directories or absent, "f" is a
\* file or absent, "r" is a directory, a file or absent
RootListings ==
    {a \cup f \cup r \cup z :
        a \in {{}, {[name |-> <<"a">>, isDir |-> TRUE]}},
        f \in {{}, {[name |-> <<"f">>, isDir |-> FALSE]}},
        r \in {{}, {[name |-> ResultName, isDir |-> TRUE]},
                   {[name |-> ResultName, isDir |-> FALSE]}},
        z \in {{}, {[name |-> <<"z">>, isDir |-> TRUE]}}}

FileSystems ==
    [root : RootListings, outside : {"absent", "dir", "file"},
     statFails : BOOLEAN, mkdirFails : BOOLEAN, readDirFails : BOOLEAN]

\* the entries of the root directory a path names
EntriesAt(fsys, path) == {e \in fsys.root : Join(RootPath, e.name) = path}

\* os.Stat(path): err is "nil", "notExist" or "other"
osStat(fsys, path) ==
    IF fsys.statFails THEN [err |-> "other", isDir |-> FALSE]
    ELSE IF path = OutsidePath
    THEN IF fsys.outside = "absent" THEN [err |-> "notExist", isDir |-> FALSE]
         ELSE [err |-> "nil", isDir |-> fsys.outside = "dir"]
    ELSE IF EntriesAt(fsys, path) = {} THEN [err |-> "notExist", isDir |-> FALSE]
    ELSE [err |-> "nil", isDir |-> (CHOOSE e \in EntriesAt(fsys, path) : TRUE).isDir]

\* os.Mkdir(path, os.ModeDir) when it succeeds
osMkdir(fsys, path) ==
    IF path = OutsidePath THEN [fsys EXCEPT !.outside = "dir"]
    ELSE [fsys EXCEPT !.root =
              @ \cup {[name |-> n, isDir |-> TRUE] :
                         n \in {m \in {EntryNames[i] : i \in 1..Len(EntryNames)} :
                                   Join(RootPath, m) = path}}]

\* ioutil.ReadDir(input.RootPath) when it succeeds: sorted by file name
ReadDir(fsys) ==
    LET names == SelectSeq(EntryNames, LAMBDA n : \E e \in fsys.root : e.name = n)
    IN [i \in 1..Len(names) |-> CHOOSE e \in fsys.root : e.name = names[i]]

\* a check that fails on an error only
StatFailed(st) == st.err # "nil"

\* else if err != nil || !item.IsDir()
ResultUnusable(st) == st.err # "nil" \/ ~st.isDir

\* the codes sourceDir returns
SourceDirCodes == {StatusOK, SourceDirectoryError}

\* how a call of sourceDir ends: the code it returns and what cmd.Run
\* returned in it ("none" when the directory was rejected before the run),
\* or a panic of its monitor goroutine, which ends the process before
\* sourceDir returns
SourceDirOutcomes ==
    {o \in [code : SourceDirCodes, run : {"none", "ok", "error"}] :
        (o.code = SourceDirectoryError) = (o.run = "none")}
    \cup {[code |-> StatusOK, run |-> "panic"]}

NotTraversed == [exitCode |-> StatusOK, err |-> "none"]

\* TraverseRoot is not part of the run
TraverseIdle ==
    /\ fs = [root |-> {}, outside |-> "absent", statFails |-> FALSE,
             mkdirFails |-> FALSE, readDirFails |-> FALSE]
    /\ resDir = <<>>
    /\ rootPc = "none"
    /\ files = <<>>
    /\ next = 0
    /\ dirsFound = 0
    /\ made = <<>>
    /\ handed = <<>>
    /\ traversed = NotTraversed

RenderInit ==
    /\ grouped = NoFiles
    /\ cmdRaw = <<>>
    /\ pc = "entry"
    /\ exitCode = 0
    /\ totalFrames = 0
    /\ probed = FALSE
    /\ tempAnimationProgress = 0
    /\ sig = "nil"
    /\ stops = 0
    /\ acks = 0
    /\ monPc = "none"
    /\ proc = "none"
    /\ runResult = "none"
    /\ encoded = 0
    /\ resFiles = {}
    /\ progBuf = <<>>
    /\ pumpPc = "idle"
    /\ pumpOld = <<>>
    /\ pumpChunk = NoChunk
    /\ sample = NoSample
    /\ examined = <<>>
    /\ lineCount = 0
    /\ printed = NothingDrawn
    /\ call = NoCall

\* one render of a source directory, default options
Init ==
    /\ listing \in RenderListings
    /\ readable \in BOOLEAN
    /\ input = DefaultInput
    /\ RenderInit
    /\ TraverseIdle

\* classification and command synthesis over every listing and option set
InitPipeline ==
    /\ listing \in Listings
    /\ readable \in BOOLEAN
    /\ input \in UserInputs
    /\ RenderInit
    /\ TraverseIdle

\* a panic in any goroutine ends the process
Running == monPc # "crashed"

(***************************************************************************)
(* sourceDir (the owner).                                                  *)
(***************************************************************************)
\* groupFiles is called on the source directory
SourceDirGroup ==
    /\ pc = "entry"
    /\ grouped' = groupFiles(listing, readable, input)
    /\ pc' = "validate"
    /\ UNCHANGED <<traverseVars, helperVars, inputVars, cmdRaw, exitCode, probeVars, chanVars, monPc,
                   procVars, progBuf, pumpVars, drawVars>>

\* a case of the switch force-stops
SourceDirReject ==
    /\ pc = "validate"
    /\ Rejects(grouped)
    /\ exitCode' = SourceDirectoryError
    /\ pc' = "returned"
    /\ UNCHANGED <<traverseVars, helperVars, inputVars, grouped, cmdRaw, probeVars, chanVars, monPc,
                   procVars, progBuf, pumpVars, drawVars>>

\* generateCmd, the buffers, the channel and the deferred function
SourceDirGenerate ==
    /\ pc = "validate"
    /\ ~Rejects(grouped)
    /\ cmdRaw' = generateCmd(SrcPath, input, ResPath, grouped.mediaFiles[1],
                             grouped.subtitles, grouped.attachments, grouped.chapters)
    /\ sig' = "open"
    /\ pc' = "initialize"
    /\ UNCHANGED <<traverseVars, helperVars, inputVars, grouped, exitCode, probeVars, stops, acks, monPc,
                   procVars, progBuf, pumpVars, drawVars>>

\* updateThread.Initialize(): the frame probe
Initialize ==
    /\ pc = "initialize"
    /\ \E out \in ProbeOutputs : totalFrames' = InitializeFrames(out)
    /\ probed' = TRUE
    /\ tempAnimationProgress' = 0
    /\ pc' = "spawn"
    /\ UNCHANGED <<traverseVars, helperVars, inputVars, grouped, cmdRaw, exitCode, chanVars, monPc,
                   procVars, progBuf, pumpVars, sample, examined, lineCount, printed>>

\* go updateThread.DisplayUpdates(&progBuf, signal)
SpawnMonitor ==
    /\ pc = "spawn"
    /\ monPc' = "waitTick"
    /\ pc' = "run"
    /\ UNCHANGED <<traverseVars, helperVars, inputVars, grouped, cmdRaw, exitCode, probeVars, chanVars,
                   procVars, progBuf, pumpVars, drawVars>>

\* cmd.Run() starts the transcoder
CmdStart ==
    /\ pc = "run"
    /\ Running
    /\ proc' = "running"
    /\ pc' = "wait"
    /\ UNCHANGED <<traverseVars, helperVars, inputVars, grouped, cmdRaw, exitCode, probeVars, chanVars, monPc,
                   runResult, encoded, resFiles, progBuf, pumpVars, drawVars>>

\* cmd.Run() cannot start the transcoder: it returns the error at once and
\* "return commons.StatusOK" runs the deferred function
CmdStartFails ==
    /\ pc = "run"
    /\ Running
    /\ proc' = "failedStart"
    /\ runResult' = "error"
    /\ exitCode' = StatusOK
    /\ pc' = "deferSend"
    /\ UNCHANGED <<traverseVars, helperVars, inputVars, grouped, cmdRaw, probeVars, chanVars, monPc,
                   encoded, resFiles, progBuf, pumpVars, drawVars>>

\* cmd.Run() returns after the transcoder has exited and its stderr was
\* copied; "return commons.StatusOK" runs the deferred function
CmdRunReturns ==
    /\ pc = "wait"
    /\ Running
    /\ proc = "exited"
    /\ exitCode' = StatusOK
    /\ pc' = "deferSend"
    /\ UNCHANGED <<traverseVars, helperVars, inputVars, grouped, cmdRaw, probeVars, chanVars, monPc,
                   procVars, progBuf, pumpVars, drawVars>>

\* a stop signal sent while cmd.Run is still waiting for the transcoder
SendingDuringRun == pc \in {"wait", "deferSend"}

\* the owner is blocked in "*sig <- true"
OwnerSending == pc = "deferSend"

\* the owner is blocked in "<-*sig"
OwnerReceiving == pc = "deferRecv"

\* close(*sig) and the return to the caller
CloseSignal ==
    /\ pc = "deferClose"
    /\ Running
    /\ sig' = "closed"
    /\ pc' = "returned"
    /\ UNCHANGED <<traverseVars, helperVars, inputVars, grouped, cmdRaw, exitCode, probeVars, stops, acks, monPc,
                   procVars, progBuf, pumpVars, drawVars>>

(***************************************************************************)
(* The transcoder subprocess and the copy of its stderr.                   *)
(***************************************************************************)
\* the output path of the command line: its last argument (the force flag
\* is not set in a render)
TranscoderOutput == cmdRaw[Len(cmdRaw)]

\* the chunks the transcoder can emit next: the progress line of the frames
\* encoded so far, a log line, a line with counters that do not fit an int64
Emittable == {ProgressChunk(encoded), NoiseLine, GarbledChunk}

\* the transcoder encodes one more frame into its output file, which it
\* creates with the first frame; one byte per frame
TranscoderEncode ==
    /\ proc = "running"
    /\ Running
    /\ encoded < MaxTotalFrames
    /\ encoded' = encoded + 1
    /\ resFiles' = {f \in resFiles : f.path # TranscoderOutput}
                   \cup {[path |-> TranscoderOutput, size |-> encoded + 1]}
    /\ UNCHANGED <<traverseVars, helperVars, inputVars, grouped, cmdRaw, pc, exitCode, probeVars, chanVars, monPc,
                   proc, runResult, progBuf, pumpVars, drawVars>>

\* the copier enters strings.Builder.Write: b.buf is read
PumpBegin ==
    /\ proc = "running"
    /\ Running
    /\ pumpPc = "idle"
    /\ Len(progBuf) < MaxChunks
    /\ pumpChunk' \in Emittable
    /\ pumpOld' = progBuf
    /\ pumpPc' = "writing"
    /\ UNCHANGED <<traverseVars, helperVars, inputVars, grouped, cmdRaw, pc, exitCode, probeVars, chanVars, monPc,
                   procVars, progBuf, drawVars>>

\* the copier leaves Write: b.buf = append(b.buf, p...) is stored
PumpEnd ==
    /\ pumpPc = "writing"
    /\ Running
    /\ progBuf' = pumpOld \o <<pumpChunk>>
    /\ pumpPc' = "idle"
    /\ pumpOld' = <<>>
    /\ pumpChunk' = NoChunk
    /\ UNCHANGED <<traverseVars, helperVars, inputVars, grouped, cmdRaw, pc, exitCode, probeVars, chanVars, monPc,
                   procVars, drawVars>>

\* the transcoder exits once its stderr is copied: with status zero or not
\* when it has written its output file, with a non-zero status otherwise
TranscoderExit ==
    /\ proc = "running"
    /\ Running
    /\ pumpPc = "idle"
    /\ proc' = "exited"
    /\ runResult' \in (IF encoded > 0 THEN {"ok", "error"} ELSE {"error"})
    /\ UNCHANGED <<traverseVars, helperVars, inputVars, grouped, cmdRaw, pc, exitCode, probeVars, chanVars, monPc,
                   encoded, resFiles, progBuf, pumpVars, drawVars>>

(***************************************************************************)
(* Updates.DisplayUpdates (the monitor goroutine).                         *)
(***************************************************************************)
\* what buffer.String() can return: the buffer, and during an append that
\* is not synchronised with the read also the buffer with part of the chunk
Observations ==
    IF pumpPc = "writing"
    THEN {progBuf} \cup {progBuf \o <<t>> : t \in Torn(pumpChunk)}
    ELSE {progBuf}

\* one tick up to the redraw: extractData (buffer.String()), getProgress,
\* jumpCursor and the print.  The size extractData returns is a multiple of
\* 1000, so the comparison of size with convFail selects the message only
\* if it is convFail itself.
MonSample ==
    /\ monPc = "waitTick"
    /\ \E observed \in Observations : \E d \in {extractData(observed)} :
            /\ sample' = d
            /\ examined' = observed
            /\ IF d.frames = convFail /\ d.fps = convFail /\ d.size = convFail
               THEN /\ printed' = Drawn(BrokenMessage, FALSE)
                    /\ lineCount' = LineCount(BrokenMessage)
                    /\ monPc' = "resetting"
                    /\ UNCHANGED tempAnimationProgress
               ELSE \E progress \in IntConversions(d.frames, totalFrames) :
                    \E g \in {getProgress(d.frames, d.fps, d.size, totalFrames,
                                          progress, tempAnimationProgress)} :
                         /\ tempAnimationProgress' = g.bar.animation
                         /\ IF g.panics
                            THEN /\ monPc' = "crashed"
                                 /\ UNCHANGED <<printed, lineCount>>
                            ELSE /\ printed' = Drawn(g, FALSE)
                                 /\ lineCount' = LineCount(g)
                                 /\ monPc' = "resetting"
    /\ UNCHANGED <<traverseVars, helperVars, inputVars, grouped, cmdRaw, pc, exitCode, probeVars, chanVars,
                   procVars, progBuf, pumpVars>>

\* buffer.Reset(), then the select finds no sender waiting and takes the
\* default case: the loop waits for the next tick
MonResetDefault ==
    /\ monPc = "resetting"
    /\ ~OwnerSending
    /\ progBuf' = <<>>
    /\ monPc' = "waitTick"
    /\ UNCHANGED <<traverseVars, helperVars, inputVars, grouped, cmdRaw, pc, exitCode, probeVars, chanVars,
                   procVars, pumpVars, drawVars>>

\* buffer.Reset(), then "case <-interrupt" of the select meets
\* "*sig <- true" of the owner
MonResetStop ==
    /\ monPc = "resetting"
    /\ OwnerSending
    /\ Running
    /\ sig = "open"
    /\ progBuf' = <<>>
    /\ stops' = stops + 1
    /\ pc' = "deferRecv"
    /\ monPc' = "final"
    /\ UNCHANGED <<traverseVars, helperVars, inputVars, grouped, cmdRaw, exitCode, probeVars, sig, acks,
                   procVars, pumpVars, drawVars>>

\* a final sample that keeps the frame count of the last tick
ScrapedFrames == sample.frames

\* the frame count of the final sample
FinalFrames == totalFrames

\* the path whose size the final sample shows
InspectedPath == Join(ResPath, grouped.mediaFiles[1].name)

\* the final sample of the interrupt branch
MonFinal ==
    /\ monPc = "final"
    /\ \E frames \in {FinalFrames} : \E size \in {getFileSize(resFiles, InspectedPath)} :
         \E progress \in IntConversions(frames, totalFrames) :
            \E g \in {getProgress(frames, sample.fps, size, totalFrames,
                                  progress, tempAnimationProgress)} :
               /\ sample' = [sample EXCEPT !.frames = frames, !.size = size]
               /\ tempAnimationProgress' = g.bar.animation
               /\ IF g.panics
                  THEN /\ monPc' = "crashed"
                       /\ UNCHANGED printed
                  ELSE /\ printed' = Drawn(g, TRUE)
                       /\ monPc' = "sendAck"
    /\ UNCHANGED <<traverseVars, helperVars, inputVars, grouped, cmdRaw, pc, exitCode, probeVars, chanVars,
                   procVars, progBuf, pumpVars, examined, lineCount>>

\* an acknowledgement sent before the final sample is drawn
AckBeforeFinalSample == monPc \in {"final", "sendAck"}

\* the monitor is blocked in "interrupt <- true"
AckReady == monPc = "sendAck"

\* "interrupt <- true" of the monitor meets "<-*sig" of the owner; the
\* monitor returns
AckRendezvous ==
    /\ OwnerReceiving
    /\ AckReady
    /\ sig = "open"
    /\ acks' = acks + 1
    /\ pc' = "deferClose"
    /\ monPc' = "terminated"
    /\ UNCHANGED <<traverseVars, helperVars, inputVars, grouped, cmdRaw, exitCode, probeVars, sig, stops,
                   procVars, progBuf, pumpVars, drawVars>>

(***************************************************************************)
(* Specifications.                                                         *)
(***************************************************************************)
OwnerStep ==
    \/ SourceDirGroup
    \/ SourceDirReject
    \/ SourceDirGenerate
    \/ Initialize
    \/ SpawnMonitor
    \/ CmdStart
    \/ CmdStartFails
    \/ CmdRunReturns
    \/ CloseSignal

TranscoderStep ==
    \/ PumpBegin
    \/ PumpEnd
    \/ TranscoderEncode
    \/ TranscoderExit

MonitorStep ==
    \/ MonSample
    \/ MonResetDefault
    \/ MonResetStop
    \/ MonFinal
    \/ AckRendezvous

Next == OwnerStep \/ TranscoderStep \/ MonitorStep

Spec == Init /\ [][Next]_vars

\* the owner runs when it can, and the ticker keeps firing: the monitor
\* runs when it can
FairSpec == Spec /\ WF_vars(OwnerStep) /\ WF_vars(MonitorStep)

NextPipeline == SourceDirGroup \/ SourceDirReject \/ SourceDirGenerate

SpecPipeline == InitPipeline /\ [][NextPipeline]_vars

(***************************************************************************)
(* TraverseRoot.  A call of sourceDir is one step that returns one of the  *)
(* codes of sourceDir.                                                     *)
(***************************************************************************)
InitRoot ==
    /\ listing = <<>>
    /\ readable = FALSE
    /\ input \in {[DefaultInput EXCEPT !.IsDirect = d] : d \in BOOLEAN}
    /\ RenderInit
    /\ fs \in FileSystems
    /\ resDir \in {Join(RootPath, ResultName), OutsidePath}
    /\ resDir # OutsidePath => fs.outside = "absent"
    /\ rootPc = "stat"
    /\ files = <<>>
    /\ next = 0
    /\ dirsFound = 0
    /\ made = <<>>
    /\ handed = <<>>
    /\ traversed = NotTraversed

\* os.Stat(resDir), and os.Mkdir when the path does not exist
TraverseCheckResult ==
    /\ rootPc = "stat"
    /\ \E st \in {osStat(fs, resDir)} :
           IF st.err = "notExist"
           THEN /\ made' = Append(made, resDir)
                /\ IF fs.mkdirFails
                   THEN /\ traversed' = [exitCode |-> UnexpectedError,
                                         err |-> "unable to create destination directory"]
                        /\ rootPc' = "returned"
                        /\ fs' = fs
                   ELSE /\ fs' = osMkdir(fs, resDir)
                        /\ rootPc' = "readDir"
                        /\ traversed' = traversed
           ELSE /\ IF ResultUnusable(st)
                   THEN /\ traversed' = [exitCode |-> UnexpectedError,
                                         err |-> "an unexpected internal error occurred"]
                        /\ rootPc' = "returned"
                   ELSE /\ rootPc' = "readDir"
                        /\ traversed' = traversed
                /\ UNCHANGED <<fs, made>>
    /\ UNCHANGED <<renderOnly, helperVars, resDir, files, next, dirsFound, handed>>

\* ioutil.ReadDir(input.RootPath), and the direct mode
TraverseReadDir ==
    /\ rootPc = "readDir"
    /\ IF fs.readDirFails
       THEN /\ traversed' = [exitCode |-> UnexpectedError,
                             err |-> "unable to read root directory"]
            /\ rootPc' = "returned"
            /\ UNCHANGED <<files, next, dirsFound, handed>>
       ELSE IF input.IsDirect
       THEN /\ \E o \in SourceDirOutcomes :
                   /\ handed' = Append(handed, [path |-> RootPath, code |-> o.code, run |-> o.run])
                   /\ IF o.run = "panic"
                      THEN rootPc' = "crashed" /\ traversed' = traversed
                      ELSE /\ traversed' = [exitCode |-> StatusOK, err |-> "nil"]
                           /\ rootPc' = "returned"
            /\ UNCHANGED <<files, next, dirsFound>>
       ELSE /\ files' = ReadDir(fs)
            /\ next' = 1
            /\ dirsFound' = 0
            /\ rootPc' = "loop"
            /\ UNCHANGED <<handed, traversed>>
    /\ UNCHANGED <<renderOnly, helperVars, fs, resDir, made>>

\* one iteration of: for _, f := range files
TraverseEntry ==
    /\ rootPc = "loop"
    /\ next <= Len(files)
    /\ IF ~files[next].isDir
       THEN UNCHANGED <<dirsFound, handed, rootPc>>
       ELSE /\ dirsFound' = dirsFound + 1
            /\ IF Join(RootPath, files[next].name) = resDir
               THEN UNCHANGED <<handed, rootPc>>
               ELSE \E o \in SourceDirOutcomes :
                        /\ handed' = Append(handed, [path |-> Join(RootPath, files[next].name),
                                                     code |-> o.code, run |-> o.run])
                        /\ rootPc' = IF o.run = "panic" THEN "crashed" ELSE rootPc
    /\ next' = next + 1
    /\ UNCHANGED <<renderOnly, helperVars, fs, resDir, files, made, traversed>>

\* after the loop: if dirsFound == 0
TraverseReturn ==
    /\ rootPc = "loop"
    /\ next > Len(files)
    /\ traversed' =
           IF dirsFound = 0
           THEN [exitCode |-> RootDirectoryIncorrect,
                 err |-> "root directory does not contain any source directories"]
           ELSE [exitCode |-> StatusOK, err |-> "nil"]
    /\ rootPc' = "returned"
    /\ UNCHANGED <<renderOnly, helperVars, fs, resDir, files, next, dirsFound, made, handed>>

NextRoot == TraverseCheckResult \/ TraverseReadDir \/ TraverseEntry \/ TraverseReturn

SpecRoot == InitRoot /\ [][NextRoot]_vars

(***************************************************************************)
(* The helper functions of Updates, each called once on an argument.       *)
(***************************************************************************)
InitHelpers ==
    /\ listing = <<>>
    /\ readable = FALSE
    /\ input = DefaultInput
    /\ RenderInit
    /\ TraverseIdle

renderVars == <<renderOnly, traverseVars>>

\* update.readableFileSize(fileSize)
CallReadableFileSize ==
    /\ call = NoCall
    /\ \E fileSize \in Sizes \cup ExbibyteSizes :
           call' = [fn |-> "readableFileSize", arg |-> fileSize,
                    ret |-> readableFileSize(fileSize)]
    /\ UNCHANGED renderVars

\* update.trimString(&update.fileName)
CallTrimString ==
    /\ call = NoCall
    /\ \E in \in Names :
           call' = [fn |-> "trimString", arg |-> in, ret |-> trimString(in)]
    /\ UNCHANGED renderVars

\* Updates.Initialize, which calls getTotalFrames(update.filePath)
CallInitialize ==
    /\ call = NoCall
    /\ \E out \in ProbeCalls :
           /\ call' = [fn |-> "Initialize", arg |-> out, ret |-> getTotalFrames(out)]
           /\ totalFrames' = InitializeFrames(out)
    /\ probed' = TRUE
    /\ tempAnimationProgress' = 0
    /\ UNCHANGED <<traverseVars, inputVars, grouped, cmdRaw, pc, exitCode, chanVars,
                   monPc, procVars, progBuf, pumpVars, sample, examined, lineCount, printed>>

\* update.progressBar(progress), any number of times after Initialize
CallProgressBar ==
    /\ call.fn \in {"Initialize", "progressBar"}
    /\ \E progress \in ProgressChoices :
       \E bar \in {progressBar(progress, tempAnimationProgress)} :
           /\ call' = [fn |-> "progressBar", arg |-> progress, ret |-> bar]
           /\ tempAnimationProgress' = bar.animation
    /\ UNCHANGED <<traverseVars, inputVars, grouped, cmdRaw, pc, exitCode, probeVars,
                   chanVars, monPc, procVars, progBuf, pumpVars, sample, examined,
                   lineCount, printed>>

NextHelpers ==
    CallReadableFileSize \/ CallTrimString \/ CallInitialize \/ CallProgressBar

SpecHelpers == InitHelpers /\ [][NextHelpers]_vars

(***************************************************************************)
(* Properties of the rendezvous between sourceDir and the monitor.         *)
(***************************************************************************)
\* C1: for a directory that passed validation (the signal channel was made),
\* sourceDir is past the rendezvous or back in its caller only when the
\* monitor has received the one stop signal, has drawn its final sample,
\* has sent its one acknowledgement and has terminated; sourceDir never
\* returns while the monitor is sampling or drawing its final sample.
C1_ReturnsAfterAcknowledgement ==
    (pc \in {"deferClose", "returned"} /\ sig # "nil") =>
        /\ monPc = "terminated"
        /\ stops = 1
        /\ printed.final
        /\ acks = 1

C1_Returned ==
    /\ pc = "returned"
    /\ sig = "closed"
    /\ monPc = "terminated"
    /\ printed.final

\* C2: the stop signal is passed only after cmd.Run has returned, that is
\* after the transcoder has exited (or could not be started), and the final
\* sample is computed and printed only after that signal was received.
C2_FinalSampleAfterExit ==
    /\ stops > 0 =>
        /\ pc \in {"deferRecv", "deferClose", "returned"}
        /\ proc \in {"exited", "failedStart"}
        /\ runResult # "none"
    /\ (printed.final \/ monPc \in {"final", "sendAck", "terminated"}) =>
        /\ stops = 1
        /\ proc \in {"exited", "failedStart"}

C2_FinalPrinted ==
    /\ printed.final
    /\ proc = "exited"
    /\ stops = 1

C4_RendezvousCompletes ==
    (proc = "exited") ~> (monPc = "terminated" /\ pc = "returned")

\* C5: no step of the monitor that reads the progress buffer
\* (buffer.String in extractData) or clears it (buffer.Reset) is taken
\* while an append of the stderr copier is in progress.
C5_BufferAccessExclusive ==
    [][(MonSample \/ MonResetDefault \/ MonResetStop) => pumpPc = "idle"]_vars

\* C6: whenever the monitor has called readableFileSize (a progress sample
\* was drawn, or the call has panicked), the size it passed, sample.size,
\* is not negative.
C6_SizePassedNonNegative ==
    (\/ monPc = "crashed"
     \/ (monPc \in {"resetting", "sendAck", "terminated"} /\ printed.kind = "progress"))
        => sample.size >= 0

\* C7: when cmd.Run returned an error (the transcoder could not be started
\* or exited non-zero), sourceDir returns a status other than StatusOK.
C7_FailureIsReported ==
    (pc = "returned" /\ runResult = "error") => exitCode # StatusOK

(***************************************************************************)
(* Properties of validation, classification and command synthesis.         *)
(***************************************************************************)
\* the number of media files, and of subtitle, attachment and chapter files
MediaCount == Len(grouped.mediaFiles)

ExtrasCount == Len(grouped.subtitles) + Len(grouped.attachments) + Len(grouped.chapters)

\* C8: once the switch of sourceDir is passed, the directory was rejected
\* exactly when it holds no media file, several media files, or no
\* subtitle, attachment or chapter file; a rejection returns
\* SourceDirectoryError with no command generated, no probe and no
\* transcoder started, no monitor launched and the channel never made.
C8_RejectsExactlyInvalidSets ==
    pc \notin {"entry", "validate"} =>
        /\ (MediaCount = 0 \/ MediaCount > 1 \/ ExtrasCount = 0)
               <=> (pc = "returned" /\ exitCode = SourceDirectoryError /\ sig = "nil")
        /\ (MediaCount = 0 \/ MediaCount > 1 \/ ExtrasCount = 0) =>
               /\ cmdRaw = <<>>
               /\ ~probed
               /\ proc = "none"
               /\ runResult = "none"
               /\ monPc = "none"
               /\ stops = 0
               /\ acks = 0

C8_RejectedSeveralMedia ==
    /\ pc = "returned"
    /\ exitCode = SourceDirectoryError
    /\ MediaCount > 1
    /\ ExtrasCount > 0

Categories == {"media", "subtitle", "attachment", "chapter"}

\* the fixed enumeration of a category
ExtensionsOf(cat) ==
    CASE cat = "media" -> videoExt
      [] cat = "subtitle" -> subsExt
      [] cat = "attachment" -> attachmentExt
      [] cat = "chapter" -> chaptersExt

\* the list groupFiles returned for a category
ListOf(cat) ==
    CASE cat = "media" -> grouped.mediaFiles
      [] cat = "subtitle" -> grouped.subtitles
      [] cat = "attachment" -> grouped.attachments
      [] cat = "chapter" -> grouped.chapters

InList(entry, cat) == \E i \in 1..Len(ListOf(cat)) : ListOf(cat)[i] = entry

\* name ends, compared without regard to case, with "." followed by ext
EndsWithExtension(name, ext) ==
    LET suffix == <<".">> \o ext
        skip == Len(name) - Len(suffix)
    IN /\ skip >= 0
       /\ \A j \in 1..Len(suffix) : ToLowerChar(name[skip + j]) = ToLowerChar(suffix[j])

BelongsTo(entry, cat) ==
    /\ ~entry.isDir
    /\ ~IgnoreFile(input, entry.name)
    /\ \E k \in 1..Len(ExtensionsOf(cat)) : EndsWithExtension(entry.name, ExtensionsOf(cat)[k])

ListsDisjoint ==
    \A c1 \in Categories : \A c2 \in Categories \ {c1} :
        \A i \in 1..Len(ListOf(c1)) : ~InList(ListOf(c1)[i], c2)

ListsExact ==
    \A cat \in Categories :
        /\ \A i \in 1..Len(listing) : InList(listing[i], cat) <=> BelongsTo(listing[i], cat)
        /\ \A i \in 1..Len(ListOf(cat)) : \E j \in 1..Len(listing) : listing[j] = ListOf(cat)[i]

\* C9 (as stated): when groupFiles has returned, the four lists are
\* pairwise disjoint and an entry of the directory is in the list of a
\* category exactly when it is no sub-directory, is not ignored and its
\* name ends, without regard to case, with "." and an extension of that
\* category.
C9_ListsExactForEveryDirectory ==
    pc = "validate" => (ListsDisjoint /\ ListsExact)

\* C9 (amended): the statement above holds when the directory listing can
\* be read; when ioutil.ReadDir fails, all four lists are empty whatever
\* the directory holds.
C9_ListsExactWhenReadable ==
    pc = "validate" =>
        IF readable
        THEN ListsDisjoint /\ ListsExact
        ELSE \A cat \in Categories : ListOf(cat) = <<>>

\* every category is populated, one media file by an upper-case extension,
\* and an entry is left out by the exclusion list
C9_EveryCategoryPopulated ==
    /\ pc = "validate"
    /\ readable
    /\ \A cat \in Categories : ListOf(cat) # <<>>
    /\ \E i \in 1..MediaCount : grouped.mediaFiles[i].name = <<"A", ".", "M", "P", "4">>
    /\ \E i \in 1..Len(listing) :
           ~listing[i].isDir /\ IgnoreFile(input, listing[i].name)

\* the arguments that follow a "-map" in the argument vector, in order
RECURSIVE MapArguments(_)
MapArguments(cmd) ==
    IF Len(cmd) < 2 THEN <<>>
    ELSE IF Head(cmd) = ArgMap THEN <<cmd[2]>> \o MapArguments(Tail(Tail(cmd)))
    ELSE MapArguments(Tail(cmd))

\* C10: the argument vector generated for n subtitle files holds exactly
\* n + 1 stream mappings: "-map 0", then "-map i" for i = 1..n in order.
C10_MapsEveryInput ==
    pc = "initialize" =>
        MapArguments(cmdRaw) = [i \in 1..(Len(grouped.subtitles) + 1) |-> Itoa(i - 1)]

HasPrefix(s, prefix) ==
    /\ Len(prefix) <= Len(s)
    /\ SubSeq(s, 1, Len(prefix)) = prefix

\* the "-metadata:s:s:<k>" directives of an argument vector, in order: each
\* with the text after the prefix and the argument that follows it
RECURSIVE SubtitleTags(_)
SubtitleTags(cmd) ==
    IF Len(cmd) < 2 THEN <<>>
    ELSE IF HasPrefix(Head(cmd), MetaSubPrefix)
    THEN << <<SubSeq(Head(cmd), Len(MetaSubPrefix) + 1, Len(Head(cmd))), cmd[2]>> >>
         \o SubtitleTags(Tail(Tail(cmd)))
    ELSE SubtitleTags(Tail(cmd))

\* a file name without its extension: what precedes its last period
Stem(name) ==
    LET dots == {i \in 1..Len(name) : name[i] = "."}
    IN IF dots = {} THEN name
       ELSE SubSeq(name, 1, (CHOOSE i \in dots : \A j \in dots : j <= i) - 1)

\* the title of the k-th subtitle (k from 0)
TitleOf(k) ==
    IF input.SubTitleString # <<>> THEN input.SubTitleString
    ELSE Stem(grouped.subtitles[k + 1].name)

\* directives per subtitle: the title, and the language when a code is set
TagsPerSubtitle == IF input.SubLang # <<>> THEN 2 ELSE 1

\* C11: the subtitle metadata directives of the generated vector are, for
\* k = 0..n-1 in list order, "-metadata:s:s:k title=<title of s_k>" and,
\* exactly when a language code is set, "-metadata:s:s:k language=<code>"
\* right after it; nothing else carries the prefix, whatever the number of
\* chapter and attachment files.
C11_SubtitleTagsIndexedFromZero ==
    pc = "initialize" =>
        SubtitleTags(cmdRaw) =
            [j \in 1..(Len(grouped.subtitles) * TagsPerSubtitle) |->
                LET k == (j - 1) \div TagsPerSubtitle
                IN IF (j - 1) % TagsPerSubtitle = 0
                   THEN <<Itoa(k), TitlePrefix \o TitleOf(k)>>
                   ELSE <<Itoa(k), LanguagePrefix \o input.SubLang>>]

\* two subtitles with a language code, next to a chapter and a font
C11_TwoSubtitlesWithLanguage ==
    /\ pc = "initialize"
    /\ Len(grouped.subtitles) = 2
    /\ input.SubLang # <<>>
    /\ input.SubTitleString = <<>>
    /\ grouped.chapters # <<>>
    /\ grouped.attachments # <<>>

\* the "-attach" groups of an argument vector, in order: the three
\* arguments that follow each "-attach"
RECURSIVE AttachTags(_)
AttachTags(cmd) ==
    IF Len(cmd) < 4 THEN <<>>
    ELSE IF Head(cmd) = ArgAttach
    THEN << <<cmd[2], cmd[3], cmd[4]>> >> \o AttachTags(SubSeq(cmd, 5, Len(cmd)))
    ELSE AttachTags(Tail(cmd))

\* number of "-attach" and of "-metadata:s:t:<k>" arguments of the vector
AttachCount(cmd) == Cardinality({i \in 1..Len(cmd) : cmd[i] = ArgAttach})

AttachIndexCount(cmd) ==
    Cardinality({i \in 1..Len(cmd) : HasPrefix(cmd[i], MetaAttachPrefix)})

\* C12: with c chapters and a attachments the vector holds exactly c + a
\* "-attach" groups: the chapters in list order with mimetype=text/xml,
\* then the attachments in list order with the font mimetype; the k-th
\* group (k from 0) carries "-metadata:s:t:k", one counter over both kinds.
C12_AttachGroupsShareOneCounter ==
    pc = "initialize" =>
        LET c == Len(grouped.chapters)
            a == Len(grouped.attachments)
        IN /\ AttachCount(cmdRaw) = c + a
           /\ AttachIndexCount(cmdRaw) = c + a
           /\ AttachTags(cmdRaw) =
                [j \in 1..(c + a) |->
                    IF j <= c
                    THEN <<SrcPath \o <<"/">> \o grouped.chapters[j].name,
                           MetaAttachPrefix \o Itoa(j - 1), MimeXml>>
                    ELSE <<SrcPath \o <<"/">> \o grouped.attachments[j - c].name,
                           MetaAttachPrefix \o Itoa(j - 1), MimeFont>>]

\* a chapter file and a font are attached to the same output
C12_ChapterAndFont ==
    /\ pc = "initialize"
    /\ grouped.chapters # <<>>
    /\ grouped.attachments # <<>>
    /\ grouped.subtitles # <<>>

\* the sequence of the elements of the sequences of groups, in order
RECURSIVE Flatten(_)
Flatten(groups) ==
    IF groups = <<>> THEN <<>> ELSE Head(groups) \o Flatten(Tail(groups))

\* the segments of the argument vector, each written out from the file set
\* (the inputs) or collected by form from the vector (the directives)
MediaInputSegment == <<ArgInput, SrcPath \o <<"/">> \o grouped.mediaFiles[1].name>>

SubtitleInputSegment ==
    [j \in 1..(2 * Len(grouped.subtitles)) |->
        IF j % 2 = 1 THEN ArgInput
        ELSE SrcPath \o <<"/">> \o grouped.subtitles[j \div 2].name]

CopySegment == <<ArgCodec, ArgCopy>>

MappingSegment ==
    [j \in 1..(2 * Len(MapArguments(cmdRaw))) |->
        IF j % 2 = 1 THEN ArgMap ELSE MapArguments(cmdRaw)[j \div 2]]

SubtitleTagSegment ==
    [j \in 1..(2 * Len(SubtitleTags(cmdRaw))) |->
        IF j % 2 = 1 THEN MetaSubPrefix \o SubtitleTags(cmdRaw)[(j + 1) \div 2][1]
        ELSE SubtitleTags(cmdRaw)[j \div 2][2]]

IsChapterGroup(group) == group[3] = MimeXml

IsFontGroup(group) == group[3] = MimeFont

ChapterSegment ==
    Flatten([j \in 1..Len(SelectSeq(AttachTags(cmdRaw), IsChapterGroup)) |->
                <<ArgAttach>> \o SelectSeq(AttachTags(cmdRaw), IsChapterGroup)[j]])

FontSegment ==
    Flatten([j \in 1..Len(SelectSeq(AttachTags(cmdRaw), IsFontGroup)) |->
                <<ArgAttach>> \o SelectSeq(AttachTags(cmdRaw), IsFontGroup)[j]])

\* an element that names a file of the output directory
IsOutputPath(arg) == HasPrefix(arg, ResPath \o <<"/">>)

SegmentsBeforeOutput ==
    MediaInputSegment \o SubtitleInputSegment \o CopySegment \o MappingSegment
    \o SubtitleTagSegment \o ChapterSegment \o FontSegment

\* C13: the generated vector is the media input, the subtitle inputs in
\* list order, "-c copy", the stream mappings, the subtitle metadata, the
\* chapter attach groups, the font attach groups and the output path, in
\* this order and with nothing else.
C13_SegmentsInOrder ==
    pc = "initialize" =>
        /\ IsOutputPath(cmdRaw[Len(cmdRaw)])
        /\ cmdRaw = SegmentsBeforeOutput \o <<cmdRaw[Len(cmdRaw)]>>

\* C14: whatever the user options and the extension of the media file, the
\* last element of the generated vector is the output path
\* outDir/<media name without its final extension>.mkv.
C14_OutputPathIsLast ==
    pc = "initialize" =>
        cmdRaw[Len(cmdRaw)] =
            ResPath \o <<"/">> \o Stem(grouped.mediaFiles[1].name) \o <<".", "m", "k", "v">>

(***************************************************************************)
(* Properties of the helper functions.                                     *)
(***************************************************************************)
\* the unit of index k in the order B, KiB, MiB, GiB, TiB, PiB
UnitOfIndex(k) ==
    CASE k = 0 -> "B"
      [] k = 1 -> "KiB"
      [] k = 2 -> "MiB"
      [] k = 3 -> "GiB"
      [] k = 4 -> "TiB"
      [] k = 5 -> "PiB"

C16_NegativeSizePanics ==
    (call.fn = "readableFileSize" /\ call.arg.neg) => call.ret.kind = "panic"

\* readableFileSize was called with -10
C16_CalledWithMinusTen ==
    /\ call.fn = "readableFileSize"
    /\ call.arg = [neg |-> TRUE, limbs |-> <<10>>]
    /\ call.ret.kind = "panic"

FrameTokens(text) == SelectSeq([i \in 1..Len(text) |-> text[i].frame], LAMBDA t : t # <<>>)

\* C18: getTotalFrames returns (0, error) when the probe fails to run, when
\* its output holds no frame count, and when the count found does not parse
\* (it has more than 18 digits here); otherwise it returns the count with
\* no error.  After a failure Initialize leaves totalFrames = 0.
C18_ProbeFailureGivesZero ==
    call.fn = "Initialize" =>
        LET tokens == FrameTokens(call.arg.text)
            fails == \/ call.arg.failed
                     \/ tokens = <<>>
                     \/ \E i \in 1..Len(tokens) : Len(tokens[i]) > 18
        IN /\ fails => call.ret = [frames |-> 0, err |-> TRUE] /\ totalFrames = 0
           /\ ~fails => /\ ~call.ret.err
                        /\ \E i \in 1..Len(tokens) : Itoa(call.ret.frames) = tokens[i]
                        /\ totalFrames = call.ret.frames

\* a probe that ran and wrote a count no int64 holds
C18_CountOutOfRange ==
    /\ call.fn = "Initialize"
    /\ ~call.arg.failed
    /\ FrameTokens(call.arg.text) = <<OverInt64Digits>>
    /\ call.ret.err
    /\ totalFrames = 0

\* C26: in a render the monitor is out of its sampling loop only after it
\* received the stop signal; at most one stop signal and one
\* acknowledgement are exchanged, the acknowledgement after the stop signal
\* and both received by the other side; the channel is closed only after
\* the acknowledgement was received, and a validated directory is left with
\* exactly one of each.
C26_HandshakeOneShotTwoPhase ==
    /\ stops <= 1 /\ acks <= stops
    /\ monPc \notin {"none", "waitTick", "resetting"} => stops = 1
    /\ sig = "closed" => acks = 1
    /\ (pc = "returned" /\ cmdRaw # <<>>) => (stops = 1 /\ acks = 1)

\* C29: after Initialize and any calls of progressBar the animation counter
\* is one of 0, 5, ..., 35; it is changed only by a call that draws the bar
\* of "?"; no repeat count of a bar is negative and the body of every bar
\* has exactly 40 cells.
C29_AnimationCounterInRange ==
    /\ [](/\ tempAnimationProgress \in {0, 5, 10, 15, 20, 25, 30, 35}
          /\ call.fn = "progressBar" =>
                 /\ call.ret.marks >= 0 /\ call.ret.blanks >= 0
                 /\ call.ret.marks + call.ret.head + call.ret.blanks = 40)
    /\ [][(call'.fn = "progressBar" /\ tempAnimationProgress' # tempAnimationProgress)
          => call'.ret.kind = "unknown"]_vars

\* the counter is back at 0 after the eighth bar of "?" in a row
C29_CounterWrapped ==
    /\ call.fn = "progressBar"
    /\ call.ret.kind = "unknown"
    /\ call.ret.marks = 0
    /\ call.ret.blanks = 40

\* C30: for every size from 0 up to the largest int64 (below 8 * 1024^6)
\* readableFileSize returns a value, and the index of its unit is at most 5.
C30_UnitIndexInTable ==
    (/\ call.fn = "readableFileSize"
     /\ ~call.arg.neg
     /\ \/ Len(call.arg.limbs) <= 6
        \/ Len(call.arg.limbs) = 7 /\ call.arg.limbs[1] <= 7)
    => (call.ret.kind = "value" /\ call.ret.counter <= 5)

(***************************************************************************)
(* Properties of the monitor's samples.                                    *)
(***************************************************************************)
\* no chunk of the text holds a frame, fps or size counter
NoCounterIn(text) ==
    \A i \in 1..Len(text) :
        text[i].frame = <<>> /\ text[i].fps = <<>> /\ text[i].size = <<>>

\* C20: a tick of the monitor that finds none of the frame, fps and size
\* patterns in the buffer (the copier is idle, so the tick reads the buffer
\* as it is) draws the indeterminate animation, the bar of "?", and not a
\* numeric progress display.
C20_NoMatchDrawsAnimation ==
    [][(/\ monPc = "waitTick"
        /\ monPc' = "resetting"
        /\ pumpPc = "idle"
        /\ NoCounterIn(progBuf))
       => printed'.bar.kind = "unknown"]_vars

\* what is on the screen is a numeric progress display
NumericDisplay(drawn) ==
    drawn.kind = "progress" /\ drawn.bar.kind = "normal" /\ drawn.percent.kind = "number"

\* C21: with totalFrames > 0, when a sample drawn as numeric progress
\* follows a sample drawn as numeric progress, its percentage is not lower.
C21_PercentageNeverDrops ==
    [][(/\ totalFrames > 0
        /\ monPc \in {"waitTick", "final"}
        /\ NumericDisplay(printed)
        /\ NumericDisplay(printed'))
       => printed'.percent.centi >= printed.percent.centi]_vars

\* the fill count of a sample, for a frame count that is known
FillCountOf(drawn) == TruncDiv(40 * TruncDiv(drawn.frames * 100, totalFrames), 100)

\* C22: a sample drawn while totalFrames is 0 or negative, or whose fill
\* count is negative or exceeds the 40 cells of the bar, shows the bar of
\* "?" and not the normal bar, whatever the frame count.
C22_UnknownBarWhenUndefined ==
    (/\ printed.kind = "progress"
     /\ \/ totalFrames <= 0
        \/ FillCountOf(printed) < 0
        \/ FillCountOf(printed) > 40)
    => printed.bar.kind = "unknown"

\* the files at the output path of the argument vector
OutputFiles == {f \in resFiles : f.path = cmdRaw[Len(cmdRaw)]}

\* C25: the size the final sample takes is the size on disk of the file at
\* the output path that generateCmd put last in the argument vector,
\* whatever the extension of the media file.
C25_FinalSizeIsOutputSize ==
    [][(monPc = "final" /\ monPc' # "final" /\ OutputFiles # {})
       => \E f \in OutputFiles : sample'.size = f.size]_vars

\* C28: every chunk that buffer.Reset() of a tick clears is part of the
\* text the tick examined, also a chunk that was appended after the tick
\* read the buffer.
C28_NoChunkClearedUnexamined ==
    [][(monPc = "resetting" /\ monPc' # "resetting" /\ progBuf' = <<>>)
       => \A i \in 1..Len(progBuf) : i <= Len(examined) /\ examined[i] = progBuf[i]]_vars

(***************************************************************************)
(* Properties of TraverseRoot.                                             *)
(***************************************************************************)
\* what the result directory path names: "dir", "file" or "absent"
ResultKind ==
    IF resDir = OutsidePath THEN fs.outside
    ELSE IF [name |-> ResultName, isDir |-> TRUE] \in fs.root THEN "dir"
    ELSE IF [name |-> ResultName, isDir |-> FALSE] \in fs.root THEN "file"
    ELSE "absent"

\* C19: when the result directory path names something that is not a
\* directory, or checking it fails with another error than not-exist, or it
\* does not exist and creating it fails, TraverseRoot returns
\* (UnexpectedError, non-nil error) and no source directory was handed to
\* sourceDir; TraverseRoot creates no directory but the result directory.
C19_ResultDirectoryFailureIsFatal ==
    /\ \A i \in 1..Len(made) : made[i] = resDir
    /\ rootPc = "returned"
           /\ (fs.statFails \/ ResultKind = "file" \/ (ResultKind = "absent" /\ fs.mkdirFails))
       => /\ traversed.exitCode = 13
          /\ traversed.err \notin {"nil", "none"}
          /\ handed = <<>>

\* the root holds a source directory and a file where the result directory
\* is to be
C19_ResultPathIsAFile ==
    /\ rootPc = "returned"
    /\ ~fs.statFails
    /\ ResultKind = "file"
    /\ [name |-> <<"a">>, isDir |-> TRUE] \in fs.root
    /\ traversed.exitCode = UnexpectedError


\* C23: when a source directory handed to sourceDir failed (it was rejected
\* by the validation, or its transcoder run returned an error), the status
\* TraverseRoot returns is not zero.
C23_FailureReachesStatus ==
    (/\ rootPc = "returned"
     /\ \E i \in 1..Len(handed) : handed[i].code # 0 \/ handed[i].run = "error")
    => traversed.exitCode # 0

\* the sub-directories of the root other than the result directory
SourceDirectories == {e \in fs.root : e.isDir /\ Join(RootPath, e.name) # resDir}

\* C24: in non-direct mode, when the result directory is in place and the
\* root was read, TraverseRoot returns (RootDirectoryIncorrect, non-nil
\* error) if the root holds no sub-directory other than the result
\* directory, also when TraverseRoot itself created the result directory.
C24_RootWithoutSourceDirectories ==
    (/\ rootPc = "returned"
     /\ ~input.IsDirect
     /\ ~fs.statFails /\ ~fs.readDirFails /\ ResultKind = "dir"
     /\ SourceDirectories = {})
    => /\ traversed.exitCode = 11
       /\ traversed.err \notin {"nil", "none"}


\* the paths of the root's sub-directories other than the result directory,
\* in the order of the directory listing
RECURSIVE SourcePathsFrom(_)
SourcePathsFrom(i) ==
    IF i > Len(EntryNames) THEN <<>>
    ELSE (IF /\ [name |-> EntryNames[i], isDir |-> TRUE] \in fs.root
             /\ Join(RootPath, EntryNames[i]) # resDir
          THEN <<Join(RootPath, EntryNames[i])>> ELSE <<>>)
         \o SourcePathsFrom(i + 1)

HandedPaths == [i \in 1..Len(handed) |-> handed[i].path]

\* C27: in non-direct mode the directories handed to sourceDir are, at any
\* moment, the first of the root's sub-directories other than the result
\* directory, each once and in listing order; when TraverseRoot is over
\* after it read the root, all of them were handed, whatever happened in
\* the earlier ones.
C27_EverySourceDirectoryOnce ==
    ~input.IsDirect =>
        /\ Len(handed) <= Len(SourcePathsFrom(1))
        /\ HandedPaths = SubSeq(SourcePathsFrom(1), 1, Len(handed))
        /\ (\/ rootPc = "crashed"
            \/ rootPc = "returned" /\ traversed.exitCode # 13)
           => HandedPaths = SourcePathsFrom(1)
====
